---- MODULE Spec2Model ----
(***************************************************************************)
(* A model of tools/enrich_suppliers.py: the PyPI client with its cache,   *)
(* the supplier extractor, the purl dispatch, the enrichment of one SBOM   *)
(* document and the command-line entry point with its exit codes.          *)
(*                                                                         *)
(* Python values are modelled as records.  A JSON object (dict) is a       *)
(* record whose fields are its keys; every other value carries one tag:    *)
(*   [py |-> "None"]      None / JSON null                                 *)
(*   [str |-> <<...>>]    a string, as the sequence of its tokens          *)
(*   [int |-> n]          a number                                         *)
(*   [list |-> <<...>>]   a JSON array                                     *)
(*   [items |-> <<...>>]  a dict whose iteration order matters, as the     *)
(*                        sequence of its [k, v] items                     *)
(* A token is one character, or a run of characters the code never looks   *)
(* inside ("http", "x").  Component names and purls are plain token        *)
(* sequences.                                                              *)
(***************************************************************************)
EXTENDS Integers, Sequences, FiniteSets, TLC

VARIABLES
    pc,        \* position of the process in main / enrich_sbom
    fs,        \* file system: path -> file content
    outPath,   \* args.output resolved (equals "in" for the in-place default)
    orig,      \* the file system when main started (history)
    sbom,      \* the document loaded by enrich_sbom
    idx,       \* next entry of sbom["components"] to visit
    updated,   \* enrich_sbom's counter
    cache,     \* PyPIClient._cache
    calls,     \* log of get_package calls: [name, ret, requested, slept]
    net,       \* log of outbound requests (the url requested)
    failed,    \* names whose lookup ended in a failure outcome (history)
    registry,  \* what the registry may answer for a name
    exitCode,  \* main's return value, -1 while running
    raised,    \* exception type main caught ("none" if none)
    run,       \* 1 for the first invocation, 2 for a second one
    firstOut,  \* the document written by the first invocation (history)
    arg,       \* argument of a direct call of a function
    res        \* its result

vars == <<pc, fs, outPath, orig, sbom, idx, updated, cache, calls, net, failed,
          registry, exitCode, raised, run, firstOut, arg, res>>

-----------------------------------------------------------------------------
(* Bounds *)

MaxComps == 2      \* entries in the top-level components list
MaxNameLen == 3    \* tokens in a name handed to get_package directly
MaxUrls == 3       \* items in info.project_urls

-----------------------------------------------------------------------------
(* Python values *)

PyNone == [py |-> "None"]
PyStr(s) == [str |-> s]
PyTags == {"py", "str", "int", "list", "items", "exc"}

IsStr(v) == "str" \in DOMAIN v
IsList(v) == "list" \in DOMAIN v
IsItems(v) == "items" \in DOMAIN v
IsDict(v) == DOMAIN v \cap PyTags = {}

\* d.get(k): the value under k, None when the key is missing
Get(d, k) == IF k \in DOMAIN d THEN d[k] ELSE PyNone

\* truth value of a Python value
Truthy(v) ==
    IF "py" \in DOMAIN v THEN FALSE
    ELSE IF IsStr(v) THEN v.str # <<>>
    ELSE IF IsList(v) THEN v.list # <<>>
    ELSE IF IsItems(v) THEN v.items # <<>>
    ELSE IF "int" \in DOMAIN v THEN v.int # 0
    ELSE DOMAIN v # {}

Range(s) == {s[i] : i \in 1..Len(s)}

SeqsUpTo(S, n) == UNION {[1..k -> S] : k \in 0..n}

Take(s, n) == SubSeq(s, 1, IF Len(s) < n THEN Len(s) ELSE n)

\* d with d[k] = v added or replaced
SetKey(d, k, v) == [x \in DOMAIN d \cup {k} |-> IF x = k THEN v ELSE d[x]]

-----------------------------------------------------------------------------
(* Strings *)

SafeChars == {"a", "b"}        \* stand for [A-Za-z0-9._-]
SpecChars == {">"}             \* stands for [<>=!]
Whitespace == {" ", "\n"}
Chars == SafeChars \cup SpecChars \cup Whitespace \cup {"/"}

RECURSIVE LStrip(_)
LStrip(s) ==
    IF s # <<>> /\ Head(s) \in Whitespace THEN LStrip(Tail(s)) ELSE s

RECURSIVE RStrip(_)
RStrip(s) ==
    IF s # <<>> /\ s[Len(s)] \in Whitespace
    THEN RStrip(SubSeq(s, 1, Len(s) - 1)) ELSE s

\* str.strip()
Strip(s) == RStrip(LStrip(s))

\* s.startswith("http"): "http" is one token
StartsWithHttp(s) == s # <<>> /\ Head(s) = "http"

-----------------------------------------------------------------------------
(* PyPIClient *)

\* re.match(r"^[A-Za-z0-9._-]+$", name): "$" matches at the end of the string
\* and also just before a newline that ends the string
IsSafeName(name) ==
    LET body == IF name # <<>> /\ name[Len(name)] = "\n"
                THEN SubSeq(name, 1, Len(name) - 1) ELSE name
    IN body # <<>> /\ \A i \in 1..Len(body) : body[i] \in SafeChars

\* f"https://pypi.org/pypi/{name}/json"
UrlFor(name) == <<"https://", "pypi.org/pypi/">> \o name \o <<"/json">>

\* url.startswith("https://")
StartsWithHttps(url) == url # <<>> /\ Head(url) = "https://"

\* the exception types get_package catches
CaughtKinds == {"HTTPError", "URLError", "JSONDecodeError"}

\* what urlopen / resp.read().decode() / json.loads can raise that is none of
\* them: a socket timeout while the response is awaited or read (TimeoutError
\* is an OSError, not a URLError), a body that is not UTF-8 (UnicodeDecodeError
\* is a ValueError, not a JSONDecodeError), and http.client's refusal of a
\* request target with a control character in it (InvalidURL), raised before
\* anything is sent
UncaughtKinds == {"TimeoutError", "UnicodeDecodeError", "InvalidURL"}

\* A registry answer is a response [kind |-> "response", status, data], data
\* being the parsed body, or [kind |-> e] for an exception of type e.
Response(status, data) == [kind |-> "response", status |-> status, data |-> data]
IsFailure(o) == o.kind # "response" \/ o.status # 200

NoCache == [n \in {} |-> PyNone]

Returned(ret, c, req) ==
    [ret |-> ret, cache |-> c, requested |-> req, slept |-> req, exc |-> "none"]

\* get_package(name) on a client whose cache is c, when the registry answers
\* o to a request: the value returned, the cache afterwards, whether the
\* client slept and sent a request, and the exception that escapes, if any.
\* With the absent results left out of the cache:
get_package_no_negative_cache(c, name, o) ==
    IF name \in DOMAIN c THEN Returned(c[name], c, FALSE)
    ELSE IF ~IsSafeName(name) THEN Returned(PyNone, c, FALSE)
    ELSE IF o.kind = "response" /\ o.status = 200
         THEN Returned(o.data, SetKey(c, name, o.data), TRUE)
    ELSE IF o.kind = "response" \/ o.kind \in CaughtKinds
         THEN Returned(PyNone, c, TRUE)
    ELSE [ret |-> PyNone, cache |-> c, requested |-> TRUE, slept |-> TRUE,
          exc |-> o.kind]

get_package(c, name, o) ==
    IF name \in DOMAIN c THEN Returned(c[name], c, FALSE)
    ELSE IF ~IsSafeName(name) THEN Returned(PyNone, SetKey(c, name, PyNone), FALSE)
    ELSE IF ~StartsWithHttps(UrlFor(name))
         THEN Returned(PyNone, SetKey(c, name, PyNone), FALSE)
    ELSE IF o.kind = "response" /\ o.status = 200
         THEN Returned(o.data, SetKey(c, name, o.data), TRUE)
    ELSE IF o.kind = "response" \/ o.kind \in CaughtKinds
         THEN Returned(PyNone, SetKey(c, name, PyNone), TRUE)
    ELSE [ret |-> PyNone, cache |-> c, requested |-> o.kind # "InvalidURL",
          slept |-> TRUE, exc |-> o.kind]

-----------------------------------------------------------------------------
(* _extract_pypi_supplier *)

NoDict == [n \in {} |-> PyNone]     \* {}
Raise(e) == [exc |-> e]
IsRaise(v) == "exc" \in DOMAIN v

\* (v or "").strip() for v a string or None
OrEmptyStrip(v) == IF Truthy(v) THEN Strip(v.str) ELSE <<>>

\* str.lower() on the keys used
Lower(k) ==
    CASE k = "Homepage" -> "homepage"
      [] k = "SOURCE" -> "source"
      [] k = "Source" -> "source"
      [] OTHER -> k

UrlKeys == {"homepage", "repository", "source"}
UrlCap == 3

\* the loop over project_urls.items(), without the "v not in urls" test
RECURSIVE CollectUrlsNoDedup(_, _)
CollectUrlsNoDedup(items, urls) ==
    IF items = <<>> THEN urls
    ELSE LET k == Head(items).k
             v == Head(items).v
         IN IF ~IsStr(v) THEN CollectUrlsNoDedup(Tail(items), urls)
            ELSE IF StartsWithHttp(v.str) /\ Lower(k) \in UrlKeys
                 THEN CollectUrlsNoDedup(Tail(items), Append(urls, v.str))
            ELSE CollectUrlsNoDedup(Tail(items), urls)

\* the loop over project_urls.items()
RECURSIVE CollectUrls(_, _)
CollectUrls(items, urls) ==
    IF items = <<>> THEN urls
    ELSE LET k == Head(items).k
             v == Head(items).v
         IN IF ~IsStr(v) THEN CollectUrls(Tail(items), urls)
            ELSE IF StartsWithHttp(v.str) /\ v.str \notin Range(urls)
                    /\ Lower(k) \in UrlKeys
                 THEN CollectUrls(Tail(items), Append(urls, v.str))
            ELSE CollectUrls(Tail(items), urls)

\* the supplier built from the stripped fields of info
BuildSupplier(name, email, homepage, project_urls) ==
    [n \in (IF name # <<>> THEN {"name"} ELSE {})
           \cup (IF name # <<>> /\ email # <<>> /\ "@" \in Range(email)
                 THEN {"contact"} ELSE {})
           \cup (IF CollectUrls(project_urls,
                                IF StartsWithHttp(homepage) THEN <<homepage>> ELSE <<>>) # <<>>
                 THEN {"url"} ELSE {})
       |-> CASE n = "name" -> name
             [] n = "contact" -> <<[name |-> name, email |-> email]>>
             [] n = "url" -> Take(CollectUrls(project_urls,
                                    IF StartsWithHttp(homepage) THEN <<homepage>> ELSE <<>>),
                                  UrlCap)]

\* a or b, for two strings
Or(a, b) == IF a # <<>> THEN a ELSE b

\* the items of info["project_urls"] that the loop visits
ProjectUrlItems(pu) == IF Truthy(pu) /\ IsItems(pu) THEN pu.items ELSE <<>>

\* supplier or None
OrNone(supplier) == IF DOMAIN supplier # {} THEN supplier ELSE PyNone

ExtractFromInfo(info) ==
    IF ~Truthy(info) THEN PyNone
    ELSE IF ~IsDict(info) THEN Raise("AttributeError")
    ELSE OrNone(BuildSupplier(
            Or(OrEmptyStrip(Get(info, "maintainer")), OrEmptyStrip(Get(info, "author"))),
            Or(OrEmptyStrip(Get(info, "maintainer_email")),
               OrEmptyStrip(Get(info, "author_email"))),
            OrEmptyStrip(Get(info, "home_page")),
            ProjectUrlItems(Get(info, "project_urls"))))

_extract_pypi_supplier(meta) ==
    ExtractFromInfo(IF IsDict(meta) /\ "info" \in DOMAIN meta THEN meta.info
                    ELSE NoDict)

-----------------------------------------------------------------------------
(* _derive_supplier_from_purl and _enrich_component *)

\* the rest of s from its first newline on ("." matches no newline)
RECURSIVE SkipLine(_)
SkipLine(s) == IF s = <<>> \/ Head(s) = "\n" THEN s ELSE SkipLine(Tail(s))

\* re.sub(r"[<>=!].*", "", name)
RECURSIVE SubVersionSpec(_)
SubVersionSpec(s) ==
    IF s = <<>> THEN <<>>
    ELSE IF Head(s) \in SpecChars THEN SubVersionSpec(SkipLine(Tail(s)))
    ELSE <<Head(s)>> \o SubVersionSpec(Tail(s))

\* norm_name = re.sub(r"[<>=!].*", "", name).strip()
norm_name(name) == Strip(SubVersionSpec(name))

NpmSupplier == [name |-> <<"npm Registry">>, url |-> <<<<"https://www.npmjs.com/">>>>]
MavenSupplier == [name |-> <<"Maven Central">>, url |-> <<<<"https://search.maven.org/">>>>]

\* the outcome of a derivation: the supplier (None if none), the client's
\* cache afterwards, the get_package calls made, the exception that escapes
Derived(supplier, c, callLog, e) ==
    [supplier |-> supplier, cache |-> c, calls |-> callLog, exc |-> e]

CallRecord(name, g) ==
    [name |-> name, ret |-> g.ret, requested |-> g.requested, slept |-> g.slept,
     exc |-> g.exc]

\* "if meta: return _extract_pypi_supplier(meta)", e being what it gives
DeriveFromExtract(lookup_name, g, e) ==
    IF IsRaise(e) THEN Derived(PyNone, g.cache, <<CallRecord(lookup_name, g)>>, e.exc)
    ELSE Derived(e, g.cache, <<CallRecord(lookup_name, g)>>, "none")

\* the pypi branch once get_package has given g
DeriveFromLookup(lookup_name, g) ==
    IF g.exc # "none"
    THEN Derived(PyNone, g.cache, <<CallRecord(lookup_name, g)>>, g.exc)
    ELSE IF Truthy(g.ret)
         THEN DeriveFromExtract(lookup_name, g, _extract_pypi_supplier(g.ret))
    ELSE Derived(PyNone, g.cache, <<CallRecord(lookup_name, g)>>, "none")

_derive_supplier_from_purl(purl, name, c, o) ==
    IF purl = <<>> THEN Derived(PyNone, c, <<>>, "none")
    ELSE IF "pkg:pypi/" \in Range(purl)
         THEN DeriveFromLookup(norm_name(name), get_package(c, norm_name(name), o))
    ELSE IF "pkg:npm/" \in Range(purl) THEN Derived(NpmSupplier, c, <<>>, "none")
    ELSE IF "pkg:maven/" \in Range(purl) THEN Derived(MavenSupplier, c, <<>>, "none")
    ELSE Derived(PyNone, c, <<>>, "none")

\* component.get(k, "")
GetOrEmpty(component, k) == IF k \in DOMAIN component THEN component[k] ELSE <<>>

\* the outcome of _enrich_component: the component afterwards, whether a
\* supplier was added, and the client's cache, calls and exception as above
Enriched(component, added, d) ==
    [component |-> component, added |-> added, cache |-> d.cache,
     calls |-> d.calls, exc |-> d.exc]

\* the assignment below, but counting the component whether or not a supplier was found
SetSupplierCountAll(component, d) ==
    IF d.exc = "none" /\ Truthy(d.supplier)
    THEN Enriched(SetKey(component, "supplier", d.supplier), TRUE, d)
    ELSE Enriched(component, d.exc = "none", d)

\* "if supplier: component['supplier'] = supplier", d being the derivation
SetSupplier(component, d) ==
    IF d.exc = "none" /\ Truthy(d.supplier)
    THEN Enriched(SetKey(component, "supplier", d.supplier), TRUE, d)
    ELSE Enriched(component, FALSE, d)

\* _enrich_component skipping only a component whose supplier is truthy
_enrich_component_if_falsy(component, c, o) ==
    IF "supplier" \in DOMAIN component /\ Truthy(component.supplier)
    THEN Enriched(component, FALSE, Derived(PyNone, c, <<>>, "none"))
    ELSE SetSupplier(component,
                     _derive_supplier_from_purl(GetOrEmpty(component, "purl"),
                                            GetOrEmpty(component, "name"), c, o))

\* _enrich_component without the test for an existing supplier
_enrich_component_overwrite(component, c, o) ==
    SetSupplier(component,
                _derive_supplier_from_purl(GetOrEmpty(component, "purl"),
                                       GetOrEmpty(component, "name"), c, o))

_enrich_component(component, c, o) ==
    IF "supplier" \in DOMAIN component
    THEN Enriched(component, FALSE, Derived(PyNone, c, <<>>, "none"))
    ELSE SetSupplier(component,
                     _derive_supplier_from_purl(GetOrEmpty(component, "purl"),
                                            GetOrEmpty(component, "name"), c, o))

-----------------------------------------------------------------------------
(* Files *)

Missing == [file |-> "missing"]         \* no file at the path
NotUtf8 == [file |-> "not-utf8"]        \* bytes that are not UTF-8 text
NotJson == [file |-> "not-json"]        \* text that is not a JSON document
Truncated == [file |-> "truncated"]     \* opened with "w": empty, or the part
                                        \* of the document written so far
JsonFile(v) == [file |-> "json", val |-> v]

IsFile(f) == f.file # "missing"

\* json.dump(..., ensure_ascii=False) to a UTF-8 file fails (UnicodeEncodeError)
\* on a string with a lone surrogate, which json.load produces from an escape
\* such as "\ud83d"
Encodable(doc) ==
    ~(IsDict(doc) /\ "note" \in DOMAIN doc /\ IsStr(doc.note)
      /\ "lone-surrogate" \in Range(doc.note.str))

\* the except clauses of main
ExitCodeFor(e) ==
    IF e = "FileNotFoundError" THEN 2
    ELSE IF e = "JSONDecodeError" THEN 2
    ELSE 3

-----------------------------------------------------------------------------
(* Inputs *)

Absent == [absent |-> TRUE]     \* marks a key that the document does not have

PyPI == <<"pkg:pypi/", "x">>
Component(name, purl) == [name |-> name, purl |-> purl]

PyPIComponents ==
    {Component(n, PyPI) : n \in {<<"a">>, <<"a", ">", "b">>, <<"b">>, <<"a", "/">>}}
StaticComponents ==
    {Component(<<"a">>, p) : p \in {<<"pkg:npm/", "x">>, <<"pkg:maven/", "x">>}}
UnsupportedComponents ==
    {Component(<<"a">>, p) : p \in {<<>>, <<"pkg:gem/", "x">>}}
SuppliedComponents ==
    {SetKey(Component(<<"a">>, PyPI), "supplier", v) :
        v \in {PyNone, [name |-> <<"Acme">>]}}
NonMappings == {PyStr(<<"x">>)}

CompInputs == PyPIComponents \cup StaticComponents \cup UnsupportedComponents
              \cup SuppliedComponents \cup NonMappings

MetaCompInputs ==
    {Component(<<"a">>, PyPI), Component(<<"b">>, PyPI),
     SetKey(Component(<<"a">>, PyPI), "supplier", [name |-> <<"Acme">>])}

WithKey(d, k, v) == IF v = Absent THEN d ELSE SetKey(d, k, v)

Doc(components, metadata, note) ==
    WithKey(WithKey(WithKey([bomFormat |-> PyStr(<<"CycloneDX">>)],
                            "components", components),
                    "metadata", metadata),
            "note", note)

ComponentsInputs(comps) ==
    {Absent, PyNone} \cup {[list |-> l] : l \in SeqsUpTo(comps, MaxComps)}

MetadataInputs(comps) ==
    {Absent, PyStr(<<"x">>), [timestamp |-> PyStr(<<"t">>)]}
    \cup {[component |-> c] : c \in comps}

Docs == {Doc(c, m, Absent) : c \in ComponentsInputs(CompInputs),
                             m \in MetadataInputs(MetaCompInputs)}

\* the input files that hold no SBOM
BadInputs == {Missing, NotUtf8, NotJson, JsonFile([list |-> <<>>])}

\* registry metadata documents
MetaAlice ==
    [info |-> [maintainer |-> PyStr(<<"Alice">>),
               maintainer_email |-> PyStr(<<"alice", "@", "example.com">>),
               project_urls |-> [items |-> <<[k |-> "Homepage", v |-> PyStr(<<"http", "x">>)],
                                             [k |-> "Source", v |-> PyStr(<<"http", "y">>)]>>]]]
MetaBlank == [info |-> [author |-> PyStr(<<" ">>)]]
MetaInfoStr == [info |-> PyStr(<<"x">>)]

Exception(e) == [kind |-> e]

Outcomes ==
    {Response(200, MetaAlice), Response(200, MetaBlank), Response(200, MetaInfoStr),
     Response(204, PyNone)}
    \cup {Exception(e) : e \in CaughtKinds \cup {"TimeoutError", "UnicodeDecodeError"}}

AnyRegistry == [mode |-> "any"]

\* what urlopen may give for name: what the stub registry says, else any
\* outcome. A name with a newline in it makes a request target that the
\* http.client of a current Python refuses and that of an older one sends.
Answers(name) ==
    IF registry.mode = "stub" /\ name \in DOMAIN registry.answers
    THEN {registry.answers[name]}
    ELSE IF "\n" \in Range(name) THEN Outcomes \cup {Exception("InvalidURL")}
    ELSE Outcomes

-----------------------------------------------------------------------------
(* main and enrich_sbom *)

InitWith(inputs, outs, registries) ==
    /\ pc = "start"
    /\ \E f \in inputs, o \in outs :
          /\ fs = [in |-> f, out |-> o.old]
          /\ outPath = o.path
    /\ orig = fs
    /\ sbom = PyNone
    /\ idx = 1
    /\ updated = 0
    /\ cache = NoCache
    /\ calls = <<>>
    /\ net = <<>>
    /\ failed = {}
    /\ registry \in registries
    /\ exitCode = -1
    /\ raised = "none"
    /\ run = 1
    /\ firstOut = PyNone
    /\ arg = PyNone
    /\ res = PyNone

InPlace == [path |-> "in", old |-> Missing]
NewFile == [path |-> "out", old |-> Missing]
Overwrite == [path |-> "out", old |-> JsonFile(Doc(Absent, Absent, Absent))]
NoDirectory == [path |-> "nodir/out", old |-> Missing]

Init == InitWith(BadInputs \cup {JsonFile(d) : d \in Docs},
                 {InPlace, NewFile}, {AnyRegistry})

\* an exception leaves enrich_sbom and reaches the except clauses of main
Fail(e) ==
    /\ pc' = "exit"
    /\ raised' = e
    /\ exitCode' = ExitCodeFor(e)

\* main: the is_file test
MainStart ==
    /\ pc = "start"
    /\ IF IsFile(fs["in"])
       THEN pc' = "load" /\ UNCHANGED <<exitCode, raised>>
       ELSE pc' = "exit" /\ exitCode' = 2 /\ UNCHANGED raised
    /\ UNCHANGED <<fs, outPath, orig, sbom, idx, updated, cache, calls, net,
                   failed, registry, run, firstOut, arg, res>>

\* enrich_sbom: open and json.load the input, construct the client
LoadSbom ==
    /\ pc = "load"
    /\ LET f == fs["in"]
       IN IF f.file = "json"
          THEN /\ sbom' = f.val
               /\ pc' = "components"
               /\ UNCHANGED <<exitCode, raised>>
          ELSE /\ Fail(CASE f.file = "missing" -> "FileNotFoundError"
                         [] f.file = "not-utf8" -> "UnicodeDecodeError"
                         [] OTHER -> "JSONDecodeError")
               /\ UNCHANGED sbom
    /\ idx' = 1
    /\ updated' = 0
    /\ cache' = NoCache
    /\ UNCHANGED <<fs, outPath, orig, calls, net, failed, registry, run,
                   firstOut, arg, res>>

\* the requests among the calls of r, as the urls requested
Requests(r) ==
    [i \in 1..Len(SelectSeq(r.calls, LAMBDA c : c.requested))
       |-> UrlFor(SelectSeq(r.calls, LAMBDA c : c.requested)[i].name)]

\* the bookkeeping of one _enrich_component call r that was answered o
Lookup(r, o) ==
    /\ cache' = r.cache
    /\ calls' = calls \o r.calls
    /\ net' = net \o Requests(r)
    /\ failed' = failed \cup {c.name : c \in {x \in Range(r.calls) :
                                               x.requested /\ IsFailure(o)}}

\* the loop body once _enrich_component has given r
ListedEnriched(r, o) ==
    /\ Lookup(r, o)
    /\ IF r.exc # "none"
       THEN Fail(r.exc) /\ UNCHANGED <<sbom, idx, updated>>
       ELSE /\ sbom' = [sbom EXCEPT !.components.list[idx] = r.component]
            /\ updated' = IF r.added THEN updated + 1 ELSE updated
            /\ idx' = idx + 1
            /\ UNCHANGED <<pc, exitCode, raised>>

\* the metadata.component step once _enrich_component has given r
MetadataEnriched(r, o) ==
    /\ Lookup(r, o)
    /\ IF r.exc # "none"
       THEN Fail(r.exc) /\ UNCHANGED <<sbom, updated>>
       ELSE /\ sbom' = [sbom EXCEPT !.metadata.component = r.component]
            /\ updated' = IF r.added THEN updated + 1 ELSE updated
            /\ pc' = "write"
            /\ UNCHANGED <<exitCode, raised>>

\* sbom.get("components") on a document that is no mapping
ComponentsRaise ==
    /\ pc = "components"
    /\ ~IsDict(sbom)
    /\ Fail("AttributeError")
    /\ UNCHANGED <<fs, outPath, orig, sbom, idx, updated, cache, calls, net,
                   failed, registry, run, firstOut, arg, res>>

\* one iteration of the loop over sbom["components"]
VisitComponent ==
    /\ pc = "components"
    /\ IsDict(sbom)
    /\ IsList(Get(sbom, "components"))
    /\ idx <= Len(sbom.components.list)
    /\ LET comp == sbom.components.list[idx]
       IN IF IsDict(comp)
          THEN \E o \in Answers(norm_name(GetOrEmpty(comp, "name"))) :
                 ListedEnriched(_enrich_component(comp, cache, o), o)
          ELSE /\ idx' = idx + 1
               /\ UNCHANGED <<pc, sbom, updated, cache, calls, net, failed,
                              exitCode, raised>>
    /\ UNCHANGED <<fs, outPath, orig, registry, run, firstOut, arg, res>>

\* the loop is over, or components is no list
ComponentsDone ==
    /\ pc = "components"
    /\ IsDict(sbom)
    /\ IsList(Get(sbom, "components")) => idx > Len(sbom.components.list)
    /\ pc' = "metadata"
    /\ UNCHANGED <<fs, outPath, orig, sbom, idx, updated, cache, calls, net,
                   failed, registry, exitCode, raised, run, firstOut, arg, res>>

\* metadata.component
VisitMetadata ==
    /\ pc = "metadata"
    /\ LET metadata == Get(sbom, "metadata")
           meta_comp == IF IsDict(metadata) THEN Get(metadata, "component")
                        ELSE PyNone
       IN IF IsDict(metadata) /\ IsDict(meta_comp)
          THEN \E o \in Answers(norm_name(GetOrEmpty(meta_comp, "name"))) :
                 MetadataEnriched(_enrich_component(meta_comp, cache, o), o)
          ELSE /\ pc' = "write"
               /\ UNCHANGED <<sbom, updated, cache, calls, net, failed,
                              exitCode, raised>>
    /\ UNCHANGED <<fs, outPath, orig, idx, registry, run, firstOut, arg, res>>

\* out_path.open("w"): the file is created or truncated
OpenOutput ==
    /\ pc = "write"
    /\ IF outPath \in DOMAIN fs
       THEN /\ fs' = [fs EXCEPT ![outPath] = Truncated]
            /\ pc' = "dump"
            /\ UNCHANGED <<exitCode, raised>>
       ELSE /\ Fail("FileNotFoundError")
            /\ UNCHANGED fs
    /\ UNCHANGED <<outPath, orig, sbom, idx, updated, cache, calls, net, failed,
                   registry, run, firstOut, arg, res>>

\* json.dump, the file is closed, enrich_sbom returns updated, main returns 0
DumpOutput ==
    /\ pc = "dump"
    /\ IF Encodable(sbom)
       THEN /\ fs' = [fs EXCEPT ![outPath] = JsonFile(sbom)]
            /\ pc' = "exit"
            /\ exitCode' = 0
            /\ UNCHANGED raised
       ELSE /\ Fail("UnicodeEncodeError")
            /\ UNCHANGED fs
    /\ UNCHANGED <<outPath, orig, sbom, idx, updated, cache, calls, net, failed,
                   registry, run, firstOut, arg, res>>

Next ==
    \/ MainStart
    \/ LoadSbom
    \/ ComponentsRaise
    \/ VisitComponent
    \/ ComponentsDone
    \/ VisitMetadata
    \/ OpenOutput
    \/ DumpOutput

Spec == Init /\ [][Next]_vars


-----------------------------------------------------------------------------
(* The process is interrupted (a signal, the machine stops) *)

Interrupt ==
    /\ pc \notin {"exit", "killed"}
    /\ pc' = "killed"
    /\ UNCHANGED <<fs, outPath, orig, sbom, idx, updated, cache, calls, net,
                   failed, registry, exitCode, raised, run, firstOut, arg, res>>

IOComps ==
    {Component(<<"a">>, PyPI), Component(<<"a">>, <<"pkg:npm/", "x">>),
     SetKey(Component(<<"a">>, PyPI), "supplier", [name |-> <<"Acme">>])}

IODocs ==
    {Doc(c, m, n) : c \in ComponentsInputs(IOComps),
                    m \in {Absent, [component |-> Component(<<"b">>, PyPI)]},
                    n \in {Absent, PyStr(<<"lone-surrogate">>)}}

InitIO == InitWith(BadInputs \cup {JsonFile(d) : d \in IODocs},
                   {InPlace, NewFile, Overwrite, NoDirectory}, {AnyRegistry})

NextIO == Next \/ Interrupt

SpecIO == InitIO /\ [][NextIO]_vars

-----------------------------------------------------------------------------
(* main is invoked a second time, on the file the first invocation wrote, *)
(* with a registry that answers a name the same way every time            *)

RunAgain ==
    /\ pc = "exit"
    /\ exitCode = 0
    /\ run = 1
    /\ outPath = "in"
    /\ run' = 2
    /\ firstOut' = fs[outPath]
    /\ pc' = "start"
    /\ exitCode' = -1
    /\ raised' = "none"
    /\ sbom' = PyNone
    /\ idx' = 1
    /\ updated' = 0
    /\ cache' = NoCache
    /\ calls' = <<>>
    /\ net' = <<>>
    /\ failed' = {}
    /\ UNCHANGED <<fs, outPath, orig, registry, arg, res>>

StubNames == {<<"a">>, <<"b">>}
StubOutcomes ==
    {Response(200, MetaAlice), Response(200, MetaBlank), Exception("HTTPError"),
     Exception("TimeoutError")}
Stubs == {[mode |-> "stub", answers |-> a] : a \in [StubNames -> StubOutcomes]}

TwiceComps ==
    {Component(<<"a">>, PyPI), Component(<<"a", ">", "b">>, PyPI),
     Component(<<"b">>, PyPI), Component(<<"a">>, <<"pkg:npm/", "x">>),
     SetKey(Component(<<"a">>, PyPI), "supplier", PyNone)}

TwiceDocs ==
    {Doc(c, m, Absent) : c \in ComponentsInputs(TwiceComps),
                         m \in {Absent, [component |-> Component(<<"a">>, PyPI)]}}

InitTwice == InitWith(BadInputs \cup {JsonFile(d) : d \in TwiceDocs},
                      {InPlace}, Stubs)

NextTwice == Next \/ RunAgain

SpecTwice == InitTwice /\ [][NextTwice]_vars

-----------------------------------------------------------------------------
(* Direct calls of get_package, _derive_supplier_from_purl and             *)
(* _extract_pypi_supplier                                                  *)

InitCall(args) ==
    /\ pc = "call"
    /\ arg \in args
    /\ res = PyNone
    /\ fs = [in |-> Missing, out |-> Missing]
    /\ outPath = "in"
    /\ orig = fs
    /\ sbom = PyNone
    /\ idx = 1
    /\ updated = 0
    /\ cache = NoCache
    /\ calls = <<>>
    /\ net = <<>>
    /\ failed = {}
    /\ registry = AnyRegistry
    /\ exitCode = -1
    /\ raised = "none"
    /\ run = 1
    /\ firstOut = PyNone

\* the call has given d (a derivation)
CallDone(d, o, where) ==
    /\ Lookup(d, o)
    /\ res' = d.supplier
    /\ raised' = d.exc
    /\ pc' = where
    /\ UNCHANGED <<fs, outPath, orig, sbom, idx, updated, registry, exitCode,
                   run, firstOut, arg>>

\* PyPIClient().get_package(arg)
AsDerived(name, g) == Derived(g.ret, g.cache, <<CallRecord(name, g)>>, g.exc)

CallGetPackage ==
    /\ pc = "call"
    /\ \E o \in Answers(arg.str) :
          CallDone(AsDerived(arg.str, get_package(cache, arg.str, o)), o, "got")

\* _derive_supplier_from_purl("pkg:pypi/x", arg, PyPIClient())
CallDerive ==
    /\ pc = "call"
    /\ \E o \in Answers(norm_name(arg.str)) :
          CallDone(_derive_supplier_from_purl(PyPI, arg.str, cache, o), o, "derived")

AllNames == {PyStr(n) : n \in SeqsUpTo(Chars, MaxNameLen)}

InitNames == InitCall(AllNames)

NextNames == CallGetPackage \/ CallDerive

SpecNames == InitNames /\ [][NextNames]_vars

\* _extract_pypi_supplier(arg)
CallExtract ==
    /\ pc = "call"
    /\ res' = _extract_pypi_supplier(arg)
    /\ pc' = "extracted"
    /\ UNCHANGED <<fs, outPath, orig, sbom, idx, updated, cache, calls, net,
                   failed, registry, exitCode, raised, run, firstOut, arg>>

UrlKeyInputs == {"Homepage", "SOURCE", "repository", "Docs"}
UrlValueInputs ==
    {PyStr(<<"http", "x">>), PyStr(<<"http", "y">>), PyStr(<<"http", "z">>),
     PyStr(<<"ftp", "w">>), [int |-> 5]}
HomePageInputs ==
    {PyNone, PyStr(<<"http", "h">>), PyStr(<<" ", "http", "x", " ">>),
     PyStr(<<"ftp", "w">>)}

\* a dict has each key once
ProjectUrlInputs ==
    {[items |-> it] :
        it \in {s \in SeqsUpTo([k : UrlKeyInputs, v : UrlValueInputs], MaxUrls) :
                   \A i, j \in 1..Len(s) : s[i].k = s[j].k => i = j}}

UrlMetas ==
    {[info |-> [author |-> PyStr(<<"Bob">>), home_page |-> h, project_urls |-> p]] :
        h \in HomePageInputs, p \in ProjectUrlInputs}

InitUrls == InitCall(UrlMetas)

NextUrls == CallExtract

SpecUrls == InitUrls /\ [][NextUrls]_vars


-----------------------------------------------------------------------------
(* Properties *)

\* every component of a document, in the order enrich_sbom visits them
CompSeq(doc) ==
    (IF IsDict(doc) /\ IsList(Get(doc, "components"))
     THEN doc.components.list ELSE <<>>)
    \o (IF IsDict(doc) /\ IsDict(Get(doc, "metadata"))
           /\ "component" \in DOMAIN doc.metadata
        THEN <<doc.metadata.component>> ELSE <<>>)

HasSupplier(c) == IsDict(c) /\ "supplier" \in DOMAIN c
LacksSupplier(c) == IsDict(c) /\ "supplier" \notin DOMAIN c

InputDoc == orig["in"].val
Succeeded == pc = "exit" /\ exitCode = 0
WrittenDoc == fs[outPath].val

\* the components that had no supplier in a and have one in b
Gained(a, b) ==
    {i \in 1..Len(CompSeq(a)) :
        LacksSupplier(CompSeq(a)[i]) /\ HasSupplier(CompSeq(b)[i])}

\* a and b agree on every component that has a supplier in a
SuppliedKept(a, b) ==
    /\ Len(CompSeq(b)) = Len(CompSeq(a))
    /\ \A i \in 1..Len(CompSeq(a)) :
          HasSupplier(CompSeq(a)[i]) => CompSeq(b)[i] = CompSeq(a)[i]

\* C1: a component that has a supplier key when the document is loaded is
\* never changed: in memory at every step and in the written output it is
\* identical to the input component (a null supplier included), and it is
\* not counted as updated.
C1_SuppliedUntouched ==
    IsDict(sbom) =>
        /\ SuppliedKept(InputDoc, sbom)
        /\ updated <= Cardinality(Gained(InputDoc, sbom))
        /\ Succeeded => SuppliedKept(InputDoc, WrittenDoc)

\* a run ended well in which a component with a null supplier was kept while
\* the registry gave a supplier for the very same name
C1_Witness ==
    /\ Succeeded
    /\ \E i, j \in 1..Len(CompSeq(InputDoc)) :
          /\ HasSupplier(CompSeq(InputDoc)[i])
          /\ CompSeq(InputDoc)[i].supplier = PyNone
          /\ CompSeq(InputDoc)[i].purl = PyPI
          /\ LacksSupplier(CompSeq(InputDoc)[j])
          /\ CompSeq(InputDoc)[j].name = CompSeq(InputDoc)[i].name
          /\ j < i
          /\ HasSupplier(CompSeq(WrittenDoc)[j])
          /\ CompSeq(WrittenDoc)[i].supplier = PyNone

\* C2 (as claimed): every lookup that fails makes get_package return None and
\* raise nothing, and no exception of a lookup ends the run.
C2_FailuresDegrade ==
    /\ \A i \in 1..Len(calls) :
          calls[i].name \in failed => calls[i].exc = "none" /\ calls[i].ret = PyNone
    /\ calls # <<>> => raised \notin CaughtKinds \cup UncaughtKinds

\* C3: within one run no url is requested twice; a later get_package call for
\* a name returns what the first call for it returned, without a request and
\* without the delay; the cache holds for every name called what its first
\* call returned.
C3_OneRequestPerName ==
    /\ \A i, j \in 1..Len(net) : net[i] = net[j] => i = j
    /\ \A i, j \in 1..Len(calls) :
          (i < j /\ calls[i].name = calls[j].name) =>
              /\ calls[j].ret = calls[i].ret
              /\ ~calls[j].requested
              /\ ~calls[j].slept
    /\ \A i \in 1..Len(calls) :
          calls[i].exc = "none" =>
              /\ calls[i].name \in DOMAIN cache
              /\ cache[calls[i].name] = calls[i].ret

\* a name whose first lookup failed is asked for again
C3_Witness ==
    /\ Len(calls) >= 2
    /\ calls[1].name = calls[2].name
    /\ calls[1].requested
    /\ calls[1].name \in failed
    /\ calls[2].ret = PyNone
    /\ Len(net) = 1

HasUnsafeChar(n) == \E i \in 1..Len(n) : n[i] \notin SafeChars

\* C4 (as claimed, the name of a component being the name looked up, that
\* is, cut at a version specifier and stripped): a name with a character
\* outside the safe pattern triggers no request and resolves to no supplier,
\* and get_package of a string that is not one or more safe characters
\* returns None, without a request and without raising.
C4_UnsafeNeverRequested ==
    /\ (pc = "derived" /\ HasUnsafeChar(norm_name(arg.str))) =>
          (net = <<>> /\ res = PyNone /\ raised = "none")
    /\ (pc = "got" /\ (arg.str = <<>> \/ HasUnsafeChar(arg.str))) =>
          (net = <<>> /\ res = PyNone /\ raised = "none")

\* C5: when enrich_sbom returns, the count is the number of components that
\* had no supplier key in the input and have one in the written output.
C5_CountIsGained ==
    Succeeded => updated = Cardinality(Gained(InputDoc, WrittenDoc))

\* a run in which one component gained a supplier, one did not and one had
\* its supplier already
C5_Witness ==
    /\ Succeeded
    /\ updated >= 1
    /\ \E i, j \in 1..Len(CompSeq(InputDoc)) :
          /\ LacksSupplier(CompSeq(InputDoc)[i])
          /\ LacksSupplier(CompSeq(WrittenDoc)[i])
          /\ HasSupplier(CompSeq(InputDoc)[j])

InputUnusable == orig["in"].file \in {"missing", "not-utf8", "not-json"}

\* C6 (as claimed): with the input file missing or not valid JSON, no lookup
\* is made, no file is created or changed, and the run ends with the exit
\* code of an I/O or parse error, 2.
C6_BadInputFailsClean ==
    InputUnusable =>
        /\ calls = <<>>
        /\ net = <<>>
        /\ fs = orig
        /\ pc = "exit" => exitCode = 2

\* C7 (as claimed): whenever the process is interrupted, the file at the
\* input path holds its original content or a completely written document.
C7_InputNeverCorrupted ==
    pc = "killed" => (fs["in"] = orig["in"] \/ fs["in"].file = "json")

\* C8: a second in-place run with the same registry answers ends well,
\* reports 0 updates and leaves every supplier as the first run wrote it.
C8_SecondRunAddsNothing ==
    (run = 2 /\ pc = "exit") =>
        /\ exitCode = 0
        /\ updated = 0
        /\ Len(CompSeq(WrittenDoc)) = Len(CompSeq(firstOut.val))
        /\ \A i \in 1..Len(CompSeq(WrittenDoc)) :
              IsDict(CompSeq(WrittenDoc)[i]) =>
                  Get(CompSeq(WrittenDoc)[i], "supplier")
                      = Get(CompSeq(firstOut.val)[i], "supplier")

\* the second run ended; the first one had added a supplier to one component
\* and found none for another, which the second run looked up again
C8_Witness ==
    /\ run = 2
    /\ pc = "exit"
    /\ Gained(InputDoc, firstOut.val) # {}
    /\ \E i \in 1..Len(CompSeq(firstOut.val)) : LacksSupplier(CompSeq(firstOut.val)[i])
    /\ net # <<>>

InputInvalid ==
    InputUnusable \/ (orig["in"].file = "json" /\ ~IsDict(orig["in"].val))

\* C9 (as claimed): main returns 0 only when the output was written, 2
\* whenever the input is missing or no valid SBOM mapping, and 3 for every
\* other failure.
C9_ExitCodes ==
    pc = "exit" =>
        /\ exitCode \in {0, 2, 3}
        /\ exitCode = 0 => (outPath \in DOMAIN fs /\ fs[outPath] = JsonFile(sbom))
        /\ InputInvalid => exitCode = 2
        /\ (~InputInvalid /\ exitCode # 0) => exitCode = 3

\* the items of project_urls that contribute a url after the urls in pre:
\* string values that begin with http, under one of the three keys, not in pre
\* and not met earlier in the mapping
UrlCandidates(items, pre) ==
    LET ok(i) == /\ IsStr(items[i].v)
                 /\ StartsWithHttp(items[i].v.str)
                 /\ Lower(items[i].k) \in {"homepage", "repository", "source"}
    IN {i \in 1..Len(items) :
           /\ ok(i)
           /\ items[i].v.str \notin Range(pre)
           /\ \A j \in 1..(i - 1) : ok(j) => items[j].v # items[i].v}

\* pre followed by the candidates' values in the order of the mapping
Discovered(items, pre) ==
    pre \o [n \in 1..Cardinality(UrlCandidates(items, pre)) |->
               items[CHOOSE i \in UrlCandidates(items, pre) :
                        Cardinality({m \in UrlCandidates(items, pre) : m < i}) = n - 1].v.str]

\* the url list is well formed and is the first 3 of: home (if it begins with
\* http), then the candidates
UrlListIs(url, home, items) ==
    /\ url # <<>>
    /\ Len(url) <= 3
    /\ \A i, j \in 1..Len(url) : url[i] = url[j] => i = j
    /\ \A i \in 1..Len(url) : StartsWithHttp(url[i])
    /\ StartsWithHttp(home) => url[1] = home
    /\ url = Take(Discovered(items, IF StartsWithHttp(home) THEN <<home>> ELSE <<>>), 3)

UrlReturned == pc = "extracted" /\ IsDict(res) /\ "url" \in DOMAIN res
HomePageField == IF IsStr(arg.info.home_page) THEN arg.info.home_page.str ELSE <<>>

\* C10 (as claimed): the url list has 1 to 3 distinct http strings, the
\* home_page field first when that field begins with http, and otherwise
\* the values of the matching project-url keys in the mapping's order.
C10_UrlListOfField ==
    UrlReturned => UrlListIs(res.url, HomePageField, arg.info.project_urls.items)

\* C10 (amended): the same with the home_page field stripped of surrounding
\* whitespace: it comes first when, stripped, it begins with http.
C10_UrlListOfStrippedField ==
    UrlReturned => UrlListIs(res.url, Strip(HomePageField), arg.info.project_urls.items)

\* a home page with whitespace around it comes first, stripped; the same url
\* under a project-url key is not repeated
C10_Witness ==
    /\ UrlReturned
    /\ arg.info.home_page = PyStr(<<" ", "http", "x", " ">>)
    /\ Len(arg.info.project_urls.items) = 3
    /\ arg.info.project_urls.items[1].v = PyStr(<<"http", "x">>)
    /\ res.url = <<<<"http", "x">>, <<"http", "y">>, <<"http", "z">>>>


====
